---- MODULE Spec2Model ----
(***************************************************************************)
(* Model of doorstop/core/reference_finder.py: the three resolvers of      *)
(* ReferenceFinder (find_ref, find_file_reference, find_pattern_reference) *)
(* over the tracked-file corpus tree.vcs.paths, the skip-extension set     *)
(* settings.SKIP_EXTS and the process-wide line cache behind               *)
(* linecache.getlines.                                                     *)
(*                                                                         *)
(* Strings that the code inspects character by character (keywords, file   *)
(* names, lines) are sequences of one-character strings.  Paths are        *)
(* sequences of path components; "/" as first component marks an absolute  *)
(* path.  The empty Python string '' is the empty sequence.                *)
(***************************************************************************)
EXTENDS Integers, Sequences, FiniteSets, TLC

VARIABLES corpus, skip_exts, procs, issuers, cache, call, kw, line, matched

vars == <<corpus, skip_exts, procs, issuers, cache, call, kw, line, matched>>

(* ------------------------------ bounds --------------------------------- *)

MaxCorpus == 3
MaxKw == 2
MaxLine == 3

(* ---------------------------- characters ------------------------------- *)

NL == "\n"
WordChars == {"a", "b", "c", "s", "u", "i"}
NonWordChars == {".", "-", NL}

\* \w of the re module, restricted to the characters of the model
IsWord(ch) == ch \in WordChars

\* re.escape(keyword): every character becomes a literal atom
ReEscape(s) == [k \in 1..Len(s) |-> [kind |-> "lit", ch |-> s[k]]]

\* one pattern atom against one character ("." would match all but newline)
AtomMatches(atom, ch) ==
    \/ atom.kind = "lit" /\ atom.ch = ch
    \/ atom.kind = "any" /\ ch # NL

\* \b after pos characters of s: exactly one neighbour is a word character
WordBoundary(s, pos) ==
    LET before == pos >= 1 /\ IsWord(s[pos])
        after == pos < Len(s) /\ IsWord(s[pos + 1])
    IN before # after

\* the positions at which (\b|\W) can end when it starts after pos characters
AltEnds(s, pos) ==
    {q \in {pos, pos + 1} :
        \/ q = pos /\ WordBoundary(s, pos)
        \/ q = pos + 1 /\ pos + 1 <= Len(s) /\ ~IsWord(s[pos + 1])}

\* the escaped keyword matched literally after pos characters of s
LitAt(atoms, s, pos) ==
    /\ pos + Len(atoms) <= Len(s)
    /\ \A k \in 1..Len(atoms) : AtomMatches(atoms[k], s[pos + k])

\* regex.search(line) for regex = (\b|\W)<escaped keyword>(\b|\W)
RegexSearch(atoms, s) ==
    \E st \in 0..Len(s) :
        \E q \in AltEnds(s, st) :
            /\ LitAt(atoms, s, q)
            /\ AltEnds(s, q + Len(atoms)) # {}

\* the pattern built from a keyword and compiled
KeywordRegex(keyword) == ReEscape(keyword)

(* ------------------------- Python values ------------------------------- *)

EmptyStr == <<>>
PyNone == [ty |-> "None", n |-> 0]
PyStr == [ty |-> "str", n |-> 0]
PyInt(n) == [ty |-> "int", n |-> n]

\* a returned value; ty is "tuple" for a pair and "list" for a list of pairs
Ret(ty, val) == [exc |-> "none", ty |-> ty, val |-> val]

\* a raised exception
Raise(e) == [exc |-> e, ty |-> "none", val |-> <<>>]

NoResult == [exc |-> "none", ty |-> "none", val |-> <<>>]

\* return '', ''
NotFound == Ret("tuple", <<EmptyStr, PyStr>>)

\* an optional keyword argument: None, or a string
KwNone == [none |-> TRUE, s |-> <<>>]
Kw(s) == [none |-> FALSE, s |-> s]

(* ------------------- the tracked files of the snapshot ----------------- *)

Txt(lines) == [err |-> "none", lines |-> lines]
Unreadable(e) == [err |-> e, lines |-> <<>>]

\* one element of tree.vcs.paths: (path, filename, relpath), with what the
\* file holds on disk during the pass (lines end with a newline, as
\* linecache returns them)
F1 == [path |-> <<"/", "r", "a">>, filename |-> <<"a">>, relpath |-> <<"a">>,
       disk |-> Txt(<< <<"b", "b", NL>>, <<"a", ".", "b", NL>>, <<"a", NL>> >>)]
F2 == [path |-> <<"/", "r", "a.b">>, filename |-> <<"a", ".", "b">>, relpath |-> <<"a.b">>,
       disk |-> Txt(<< <<"a", NL>>, <<"-", "a", ".", "b", NL>> >>)]
F3 == [path |-> <<"/", "r", "d", "a.b">>, filename |-> <<"a", ".", "b">>,
       relpath |-> <<"d", "a.b">>,
       disk |-> Txt(<< <<"a", "a", NL>>, <<"b", "-", "a", NL>> >>)]
F4 == [path |-> <<"/", "r", "d", "s">>, filename |-> <<"s">>, relpath |-> <<"d", "s">>,
       disk |-> Unreadable("SyntaxError")]
F5 == [path |-> <<"/", "r", "u">>, filename |-> <<"u">>, relpath |-> <<"u">>,
       disk |-> Unreadable("UnicodeDecodeError")]

Tracked == {F1, F2, F3, F4, F5}

\* the descriptor without the disk content: what the corpus provider yields
Entry(f) == [path |-> f.path, filename |-> f.filename, relpath |-> f.relpath]

\* the content of the file at an absolute path (no file, no lines)
FileContent(path) ==
    LET fs == {f \in Tracked : f.path = path}
    IN IF fs = {} THEN Txt(<<>>) ELSE (CHOOSE f \in fs : TRUE).disk

\* sequences without repetition of at most n tracked files
RECURSIVE Corpora(_)
Corpora(n) ==
    IF n = 0 THEN {<<>>}
    ELSE LET shorter == Corpora(n - 1)
         IN shorter \cup
            UNION {{Append(c, Entry(f)) :
                       f \in {g \in Tracked :
                                 \A j \in 1..Len(c) : c[j] # Entry(g)}} :
                   c \in shorter}

Keywords == {<<"a">>, <<"a", ".", "b">>, <<"c">>}
OptKeywords == {KwNone} \cup {Kw(s) : s \in Keywords}
IssuerPaths == {F2.path, <<"/", "r", "i">>}
Roots == {<<"/", "r">>, <<"/", "r", "d">>}
RefPaths == {<<"a.b">>, <<".", "u">>, <<"..", "a">>, <<"s">>}
AnyStar == ".*"
Patterns == {<<AnyStar>>, <<"/", "r", "d">>, <<AnyStar, "a.b">>, <<"r">>}
SkipSets == {{}, {<<".", "b">>}}

(* ------------------------------ paths ---------------------------------- *)

\* os.path.join(root, ref_path)
Join(a, b) == IF b # <<>> /\ b[1] = "/" THEN b ELSE a \o b

RECURSIVE NormAcc(_, _)
NormAcc(rest, acc) ==
    IF rest = <<>> THEN acc
    ELSE LET h == Head(rest)
             t == Tail(rest)
         IN IF h = "." THEN NormAcc(t, acc)
            ELSE IF h = ".."
                 THEN IF acc = <<"/">> THEN NormAcc(t, acc)
                      ELSE IF acc = <<>> \/ acc[Len(acc)] = ".."
                           THEN NormAcc(t, Append(acc, h))
                           ELSE NormAcc(t, SubSeq(acc, 1, Len(acc) - 1))
                 ELSE NormAcc(t, Append(acc, h))

\* os.path.normpath(p)
NormPath(p) == NormAcc(p, <<>>)

\* os.path.splitext(filename)[-1]
SplitExt(f) ==
    LET dots == {k \in 1..Len(f) : f[k] = "."}
    IN IF dots = {} THEN <<>>
       ELSE LET last == CHOOSE k \in dots : \A j \in dots : j <= k
            IN IF \A j \in 1..(last - 1) : f[j] = "." THEN <<>>
               ELSE SubSeq(f, last, Len(f))

\* rex.match(path) for a compiled path pattern: the pattern is a sequence of
\* literal components and ".*"; match anchors at the start only
RECURSIVE PathMatch(_, _)
PathMatch(pat, path) ==
    IF pat = <<>> THEN TRUE
    ELSE IF Head(pat) = AnyStar
         THEN \E k \in 0..Len(path) :
                  PathMatch(Tail(pat), SubSeq(path, k + 1, Len(path)))
         ELSE /\ path # <<>>
              /\ Head(path) = Head(pat)
              /\ PathMatch(Tail(pat), Tail(path))

(* ---------------------------- line cache ------------------------------ *)

EmptyCache == [k \in {} |-> <<>>]

\* the lines memoized under the file name instead of the path
CacheKeyByName(e) == e.filename

\* the key under which linecache holds the lines of a corpus entry: the
\* path handed to linecache.getlines
CacheKey(e) == e.path

\* linecache.getlines(path), up to the point where the cache is written:
\* a hit returns the memoized lines; a miss reads the file, which gives its
\* lines or raises SyntaxError or UnicodeDecodeError
GetLines(e, ch) ==
    IF CacheKey(e) \in DOMAIN ch
    THEN [st |-> "hit", lines |-> ch[CacheKey(e)]]
    ELSE LET f == FileContent(e.path)
         IN IF f.err = "none" THEN [st |-> "read", lines |-> f.lines]
            ELSE [st |-> f.err, lines |-> <<>>]

\* the cache after the lines read for an entry are memoized
CachePut(ch, e, lines) ==
    [k \in DOMAIN ch \cup {CacheKey(e)} |->
        IF k = CacheKey(e) THEN lines ELSE ch[k]]

(* ----------------------------- scanning -------------------------------- *)

\* the numbers (from 1) of the lines regex.search accepts
MatchingLines(regex, lines) ==
    {n \in 1..Len(lines) : RegexSearch(regex, lines[n])}

\* the last matching line instead of the first
LastMatch(regex, lines) ==
    LET ms == MatchingLines(regex, lines)
    IN IF ms = {} THEN 0 ELSE CHOOSE n \in ms : \A m \in ms : m <= n

\* for lineno, line in enumerate(lines, start=1): the first lineno whose
\* line matches, 0 when none does
FirstMatch(regex, lines) ==
    LET ms == MatchingLines(regex, lines)
    IN IF ms = {} THEN 0 ELSE CHOOSE n \in ms : \A m \in ms : n <= m

\* reflist.append((relpath, lineno)) for every matching line, in line order
RECURSIVE AppendMatches(_, _, _, _, _)
AppendMatches(reflist, relpath, regex, lines, n) ==
    IF n > Len(lines) THEN reflist
    ELSE AppendMatches(
             IF RegexSearch(regex, lines[n])
             THEN Append(reflist, <<relpath, PyInt(n)>>)
             ELSE reflist,
             relpath, regex, lines, n + 1)

(* ------------------------------- calls --------------------------------- *)

IdleCall ==
    [op |-> "none", ref |-> <<>>, ref_path |-> <<>>, root |-> <<>>,
     pattern |-> <<>>, keyword |-> KwNone, item_path |-> <<>>,
     pc |-> "idle", i |-> 1, lines |-> <<>>, reflist |-> <<>>, loads |-> 0,
     result |-> NoResult]

\* continue: on to the next element of tree.vcs.paths
Continue(c) == [c EXCEPT !.pc = "loop", !.i = c.i + 1, !.lines = <<>>]

\* return or raise
Finish(c, r) == [c EXCEPT !.pc = "done", !.lines = <<>>, !.result = r]

\* if path == item_path: continue
IsIssuer(path, item_path) == path = item_path

\* if filename == ref
FilenameMatches(filename, ref) == filename = ref

\* the skip-set never consulted
SkipByExtNever(filename) == FALSE

\* if os.path.splitext(filename)[-1] in settings.SKIP_EXTS
SkipByExt(filename) == SplitExt(filename) \in skip_exts

\* the exceptions each resolver catches around linecache.getlines
FindRefCaught == {"SyntaxError", "UnicodeDecodeError"}
FindFileReferenceCaught == {"SyntaxError"}
FindPatternReferenceCaught == {"SyntaxError"}

\* the keyword check left out
KeywordMissingNever(keyword) == FALSE

\* if keyword == None
KeywordMissing(keyword) == keyword.none

\* ---- find_ref ----

\* the scan of the lines of the current entry
FindRefScan(c, lines) ==
    LET n == FirstMatch(KeywordRegex(c.ref), lines)
    IN IF n > 0 THEN Finish(c, Ret("tuple", <<corpus[c.i].relpath, PyInt(n)>>))
       ELSE Continue(c)

\* one iteration of the loop, up to a cache miss
FindRefLoop(c, ch) ==
    IF c.i > Len(corpus) THEN Finish(c, NotFound)
    ELSE LET e == corpus[c.i]
             g == GetLines(e, ch)
             cl == [c EXCEPT !.loads = c.loads + 1]
         IN IF IsIssuer(e.path, c.item_path) THEN Continue(c)
            ELSE IF FilenameMatches(e.filename, c.ref)
                 THEN Finish(c, Ret("tuple", <<e.relpath, PyNone>>))
            ELSE IF SkipByExt(e.filename) THEN Continue(c)
            ELSE IF g.st = "hit" THEN FindRefScan(cl, g.lines)
            ELSE IF g.st = "read" THEN [cl EXCEPT !.pc = "load", !.lines = g.lines]
            ELSE IF g.st \in FindRefCaught THEN Continue(cl)
            ELSE Finish(cl, Raise(g.st))

\* ---- find_file_reference ----

\* ref_full_path = os.path.normpath(os.path.join(root, ref_path))
RefFullPath(root, ref_path) == NormPath(Join(root, ref_path))

FindFileReferenceScan(c, lines) ==
    LET n == FirstMatch(KeywordRegex(c.keyword.s), lines)
    IN IF n > 0 THEN Finish(c, Ret("tuple", <<corpus[c.i].relpath, PyInt(n)>>))
       ELSE Continue(c)

FindFileReferenceLoop(c, ch) ==
    IF c.i > Len(corpus) THEN Finish(c, NotFound)
    ELSE LET e == corpus[c.i]
             g == GetLines(e, ch)
             cl == [c EXCEPT !.loads = c.loads + 1]
         IN IF IsIssuer(e.path, c.item_path) THEN Continue(c)
            ELSE IF e.path # RefFullPath(c.root, c.ref_path) THEN Continue(c)
            ELSE IF c.keyword.none
                 THEN Finish(c, Ret("tuple", <<e.relpath, PyNone>>))
            ELSE IF g.st = "hit" THEN FindFileReferenceScan(cl, g.lines)
            ELSE IF g.st = "read" THEN [cl EXCEPT !.pc = "load", !.lines = g.lines]
            ELSE IF g.st \in FindFileReferenceCaught THEN Continue(cl)
            ELSE Finish(cl, Raise(g.st))

\* ---- find_pattern_reference ----

FindPatternReferenceScan(c, lines) ==
    Continue([c EXCEPT !.reflist =
        AppendMatches(c.reflist, corpus[c.i].relpath,
                      KeywordRegex(c.keyword.s), lines, 1)])

\* if reflist: return reflist; otherwise return '', ''
FindPatternReferenceEnd(c) ==
    IF c.reflist # <<>> THEN Finish(c, Ret("list", c.reflist))
    ELSE Finish(c, NotFound)

FindPatternReferenceLoop(c, ch) ==
    IF c.i > Len(corpus) THEN FindPatternReferenceEnd(c)
    ELSE LET e == corpus[c.i]
             g == GetLines(e, ch)
             cl == [c EXCEPT !.loads = c.loads + 1]
         IN IF IsIssuer(e.path, c.item_path) THEN Continue(c)
            ELSE IF ~PathMatch(c.pattern, e.path) THEN Continue(c)
            ELSE IF g.st = "hit" THEN FindPatternReferenceScan(cl, g.lines)
            ELSE IF g.st = "read" THEN [cl EXCEPT !.pc = "load", !.lines = g.lines]
            ELSE IF g.st \in FindPatternReferenceCaught THEN Continue(cl)
            ELSE Finish(cl, Raise(g.st))

\* the call after its prologue: the check for a missing keyword comes first
FindPatternReferenceEnter(c) ==
    IF KeywordMissing(c.keyword)
    THEN Finish(c, Raise("DoorstopError"))
    ELSE [c EXCEPT !.pc = "loop"]

\* ---- one step of a running call against a line cache ----

\* the call and the cache after the step: an iteration of the loop, or the
\* end of linecache.getlines after a miss (memoize, then scan)
Advance(c, ch) ==
    IF c.pc = "load"
    THEN [ch |-> CachePut(ch, corpus[c.i], c.lines),
          c |-> IF c.op = "find_ref" THEN FindRefScan(c, c.lines)
                ELSE IF c.op = "find_file_reference"
                     THEN FindFileReferenceScan(c, c.lines)
                     ELSE FindPatternReferenceScan(c, c.lines)]
    ELSE [ch |-> ch,
          c |-> IF c.op = "find_ref" THEN FindRefLoop(c, ch)
                ELSE IF c.op = "find_file_reference"
                     THEN FindFileReferenceLoop(c, ch)
                     ELSE FindPatternReferenceLoop(c, ch)]

(* ------------------------------ actions -------------------------------- *)

Quiet == UNCHANGED <<corpus, skip_exts, procs, issuers, kw, line, matched>>

CallFindRef(p) ==
    /\ p \in procs
    /\ call[p].pc = "idle"
    /\ \E ref \in Keywords, item_path \in issuers :
         call' = [call EXCEPT ![p] =
                    [IdleCall EXCEPT !.op = "find_ref", !.ref = ref,
                                     !.item_path = item_path, !.pc = "loop"]]
    /\ UNCHANGED cache
    /\ Quiet

CallFindFileReference(p) ==
    /\ p \in procs
    /\ call[p].pc = "idle"
    /\ \E ref_path \in RefPaths, root \in Roots, item_path \in issuers,
          keyword \in OptKeywords :
         call' = [call EXCEPT ![p] =
                    [IdleCall EXCEPT !.op = "find_file_reference",
                                     !.ref_path = ref_path, !.root = root,
                                     !.item_path = item_path,
                                     !.keyword = keyword, !.pc = "loop"]]
    /\ UNCHANGED cache
    /\ Quiet

CallFindPatternReference(p) ==
    /\ p \in procs
    /\ call[p].pc = "idle"
    /\ \E pattern \in Patterns, item_path \in issuers, keyword \in OptKeywords :
         call' = [call EXCEPT ![p] =
                    FindPatternReferenceEnter(
                        [IdleCall EXCEPT !.op = "find_pattern_reference",
                                         !.pattern = pattern, !.root = <<"/", "r">>,
                                         !.item_path = item_path,
                                         !.keyword = keyword])]
    /\ UNCHANGED cache
    /\ Quiet

\* one loop iteration, or the end of a cache miss, of a running call
FindRefStep(p) ==
    /\ p \in procs
    /\ call[p].op = "find_ref"
    /\ call[p].pc \in {"loop", "load"}
    /\ call' = [call EXCEPT ![p] = Advance(call[p], cache).c]
    /\ cache' = Advance(call[p], cache).ch
    /\ Quiet

FindFileReferenceStep(p) ==
    /\ p \in procs
    /\ call[p].op = "find_file_reference"
    /\ call[p].pc \in {"loop", "load"}
    /\ call' = [call EXCEPT ![p] = Advance(call[p], cache).c]
    /\ cache' = Advance(call[p], cache).ch
    /\ Quiet

FindPatternReferenceStep(p) ==
    /\ p \in procs
    /\ call[p].op = "find_pattern_reference"
    /\ call[p].pc \in {"loop", "load"}
    /\ call' = [call EXCEPT ![p] = Advance(call[p], cache).c]
    /\ cache' = Advance(call[p], cache).ch
    /\ Quiet

\* the caller takes the result; the process may issue its next call
Return(p) ==
    /\ p \in procs
    /\ call[p].pc = "done"
    /\ call' = [call EXCEPT ![p] = IdleCall]
    /\ UNCHANGED cache
    /\ Quiet

Procs == {1, 2}

InitCalls ==
    /\ cache = EmptyCache
    /\ call = [p \in Procs |-> IdleCall]
    /\ kw = <<>>
    /\ line = <<>>
    /\ matched = "unset"

\* one validation process over any corpus of the snapshot
Init ==
    /\ corpus \in Corpora(MaxCorpus)
    /\ skip_exts \in SkipSets
    /\ procs = {1}
    /\ issuers = IssuerPaths
    /\ InitCalls

Next ==
    \/ \E p \in Procs : CallFindRef(p)
    \/ \E p \in Procs : CallFindFileReference(p)
    \/ \E p \in Procs : CallFindPatternReference(p)
    \/ \E p \in Procs : FindRefStep(p)
    \/ \E p \in Procs : FindFileReferenceStep(p)
    \/ \E p \in Procs : FindPatternReferenceStep(p)
    \/ \E p \in Procs : Return(p)

Spec == Init /\ [][Next]_vars

(* ------------------- concurrent validation processes -------------------- *)

\* the snapshots the concurrent passes run over
ConcCorpora == {<<Entry(F2), Entry(F3), Entry(F5)>>}

\* two validation processes sharing the line cache over one snapshot
InitConc ==
    /\ corpus \in ConcCorpora
    /\ skip_exts = {}
    /\ procs = Procs
    /\ issuers = IssuerPaths
    /\ InitCalls

SpecConc == InitConc /\ [][Next]_vars

(* ---------------------- the matching primitive alone -------------------- *)

MatchAlphabet == {"a", "b", "-"}

RECURSIVE StrsUpTo(_)
StrsUpTo(n) ==
    IF n = 0 THEN {<<>>}
    ELSE LET shorter == StrsUpTo(n - 1)
         IN shorter \cup {Append(t, ch) : t \in shorter, ch \in MatchAlphabet}

InitMatch ==
    /\ kw \in StrsUpTo(MaxKw) \ {<<>>}
    /\ line \in StrsUpTo(MaxLine)
    /\ matched = "unset"
    /\ corpus = <<>>
    /\ skip_exts = {}
    /\ procs = {}
    /\ issuers = {}
    /\ cache = EmptyCache
    /\ call = [p \in Procs |-> IdleCall]

\* regex.search(line) on one line of a file, as linecache returns it (the
\* line's text and its newline)
SearchLine ==
    /\ matched = "unset"
    /\ matched' = IF RegexSearch(KeywordRegex(kw), Append(line, NL))
                  THEN "yes" ELSE "no"
    /\ UNCHANGED <<corpus, skip_exts, procs, issuers, cache, call, kw, line>>

NextMatch == SearchLine

SpecMatch == InitMatch /\ [][NextMatch]_vars

(* ====================== properties of the resolvers ===================== *)

Finished(p, op) == p \in procs /\ call[p].op = op /\ call[p].pc = "done"

SameResult(r1, r2) == r1.exc = r2.exc /\ r1.ty = r2.ty /\ r1.val = r2.val

IsMatch(r) == r.exc = "none" /\ r.ty = "tuple" /\ r.val[1] # EmptyStr

Readable(e) == FileContent(e.path).err = "none"

\* the numbers of the lines of an entry's file that match a keyword
LinesOf(e, keyword) ==
    {n \in 1..Len(FileContent(e.path).lines) :
        RegexSearch(ReEscape(keyword), FileContent(e.path).lines[n])}

Least(S) == CHOOSE n \in S : \A m \in S : n <= m

\* rule (a): the file name equals the keyword
RuleA(e, ref) == e.filename = ref

\* rule (b): extension not skipped, lines load, some line matches
RuleB(e, ref) ==
    /\ SplitExt(e.filename) \notin skip_exts
    /\ Readable(e)
    /\ LinesOf(e, ref) # {}

\* the positions of the non-issuer entries that satisfy rule (a) or (b)
Winners(ref, item_path) ==
    {k \in 1..Len(corpus) :
        /\ corpus[k].path # item_path
        /\ RuleA(corpus[k], ref) \/ RuleB(corpus[k], ref)}

WinnerResult(ref, item_path) ==
    LET ws == Winners(ref, item_path)
    IN IF ws = {} THEN NotFound
       ELSE LET e == corpus[Least(ws)]
            IN IF RuleA(e, ref) THEN Ret("tuple", <<e.relpath, PyNone>>)
               ELSE Ret("tuple", <<e.relpath, PyInt(Least(LinesOf(e, ref)))>>)

Satisfies(c, e) ==
    IF c.op = "find_ref" THEN RuleA(e, c.ref) \/ RuleB(e, c.ref)
    ELSE IF c.op = "find_file_reference"
         THEN /\ e.path = NormPath(Join(c.root, c.ref_path))
              /\ c.keyword.none \/ (Readable(e) /\ LinesOf(e, c.keyword.s) # {})
         ELSE /\ PathMatch(c.pattern, e.path)
              /\ Readable(e)
              /\ LinesOf(e, c.keyword.s) # {}

\* a call that is not a misuse of find_pattern_reference
ProperCall(c) == c.op # "find_pattern_reference" \/ ~c.keyword.none

\* the relative paths a result names
ResultPaths(r) ==
    IF r.exc # "none" THEN {}
    ELSE IF r.ty = "list" THEN {r.val[k][1] : k \in 1..Len(r.val)}
    ELSE IF r.val[1] = EmptyStr THEN {} ELSE {r.val[1]}

\* C2: no resolver returns a match produced from the issuer's own entry, and
\* when the issuer's entry is the only one that satisfies the query the
\* result is "not found" (no matches for the Pattern Resolver).
C2_SelfExclusion ==
    \A p \in procs :
        (call[p].pc = "done" /\ ProperCall(call[p])) =>
            LET c == call[p]
                own == {k \in 1..Len(corpus) : corpus[k].path = c.item_path}
                others == {k \in 1..Len(corpus) : corpus[k].path # c.item_path}
            IN /\ \A k \in own : corpus[k].relpath \notin ResultPaths(c.result)
               /\ ((\E k \in own : Satisfies(c, corpus[k]))
                   /\ (\A k \in others : ~Satisfies(c, corpus[k])))
                  => SameResult(c.result, NotFound)

\* the ordered list of the numbers in a set
RECURSIVE Ascending(_)
Ascending(S) ==
    IF S = {} THEN <<>> ELSE <<Least(S)>> \o Ascending(S \ {Least(S)})

\* every (relativePath, lineNumber) of entries k.. of the corpus, for the
\* non-issuer entries whose path matches the pattern and whose lines load
RECURSIVE PatternMatches(_, _)
PatternMatches(c, k) ==
    IF k > Len(corpus) THEN <<>>
    ELSE LET e == corpus[k]
             ns == IF /\ e.path # c.item_path
                      /\ PathMatch(c.pattern, e.path)
                      /\ Readable(e)
                   THEN Ascending(LinesOf(e, c.keyword.s)) ELSE <<>>
         IN [j \in 1..Len(ns) |-> <<e.relpath, PyInt(ns[j])>>]
            \o PatternMatches(c, k + 1)

\* C3: whenever a line matches, find_pattern_reference returns exactly the
\* (relativePath, lineNumber) pairs of every matching line of every
\* non-issuer, pattern-matching, loadable entry, in corpus-then-line order.
C3_PatternComplete ==
    \A p \in procs :
        (Finished(p, "find_pattern_reference") /\ ~call[p].keyword.none
         /\ PatternMatches(call[p], 1) # <<>>)
        => SameResult(call[p].result, Ret("list", PatternMatches(call[p], 1)))

\* C4: a candidate whose lines cannot be loaded (encoding or structural
\* failure) never makes a resolver raise; it contributes no content match,
\* and if no other candidate matches the result is "not found".
C4_UnreadableNeverAborts ==
    \A p \in procs :
        (call[p].pc = "done" /\ ProperCall(call[p])) =>
            /\ call[p].result.exc = "none"
            /\ (\A k \in 1..Len(corpus) :
                   corpus[k].path = call[p].item_path
                   \/ ~Satisfies(call[p], corpus[k]))
               => SameResult(call[p].result, NotFound)

\* C5: find_pattern_reference without a keyword raises DoorstopError before
\* any corpus entry is examined or any file is loaded, and returns nothing.
C5_MisuseRaises ==
    \A p \in procs :
        (call[p].op = "find_pattern_reference" /\ call[p].keyword.none) =>
            /\ call[p].pc = "done"
            /\ SameResult(call[p].result, Raise("DoorstopError"))
            /\ call[p].i = 1
            /\ call[p].loads = 0
            /\ call[p].reflist = <<>>

\* a misuse over a corpus that has an entry the pattern matches
C5_Witness ==
    \E p \in procs :
        /\ Finished(p, "find_pattern_reference")
        /\ call[p].keyword.none
        /\ call[p].result.exc = "DoorstopError"
        /\ \E k \in 1..Len(corpus) :
              /\ corpus[k].path # call[p].item_path
              /\ PathMatch(call[p].pattern, corpus[k].path)
              /\ Readable(corpus[k])

\* C6: when no line of a non-issuer, pattern-matching, readable file matches,
\* find_pattern_reference returns an empty sequence (length zero) and does
\* not raise.
C6_EmptySequence ==
    \A p \in procs :
        (Finished(p, "find_pattern_reference") /\ ~call[p].keyword.none
         /\ PatternMatches(call[p], 1) = <<>>)
        => /\ call[p].result.exc = "none"
           /\ Len(call[p].result.val) = 0

\* the entries a result gives a line number for
NumberedPaths(r) ==
    IF r.exc # "none" THEN {}
    ELSE IF r.ty = "list" THEN {r.val[k][1] : k \in 1..Len(r.val)}
    ELSE IF r.val[2].ty = "int" THEN {r.val[1]} ELSE {}

Skipped(e) == SplitExt(e.filename) \in skip_exts

\* C7 as stated: in every resolver no result carries a line number for an
\* entry whose extension is in the skip-set, and in find_ref such an entry
\* still gives the file-name match when its name equals the keyword.
C7_SkipEveryResolver ==
    \A p \in procs :
        call[p].pc = "done" =>
            \A k \in 1..Len(corpus) :
                Skipped(corpus[k]) =>
                    /\ corpus[k].relpath \notin NumberedPaths(call[p].result)
                    /\ (/\ call[p].op = "find_ref"
                        /\ corpus[k].path # call[p].item_path
                        /\ corpus[k].filename = call[p].ref
                        /\ \A j \in 1..(k - 1) :
                              j \notin Winners(call[p].ref, call[p].item_path))
                       => SameResult(call[p].result,
                                     Ret("tuple", <<corpus[k].relpath, PyNone>>))

\* C7 amended: in find_ref no result carries a line number for an entry
\* whose extension is in the skip-set, and such an entry still gives the
\* file-name match (no line number) when its name equals the keyword and no
\* earlier entry matches.
C7_SkipKeywordResolver ==
    \A p \in procs :
        Finished(p, "find_ref") =>
            \A k \in 1..Len(corpus) :
                Skipped(corpus[k]) =>
                    /\ corpus[k].relpath \notin NumberedPaths(call[p].result)
                    /\ (/\ corpus[k].path # call[p].item_path
                        /\ corpus[k].filename = call[p].ref
                        /\ \A j \in 1..(k - 1) :
                              j \notin Winners(call[p].ref, call[p].item_path))
                       => SameResult(call[p].result,
                                     Ret("tuple", <<corpus[k].relpath, PyNone>>))

\* a skipped entry whose text holds the keyword was passed over for content
\* and a skipped entry was returned by name
C7_Witness ==
    \E p \in procs :
        /\ Finished(p, "find_ref")
        /\ \E k \in 1..Len(corpus) :
              /\ Skipped(corpus[k])
              /\ corpus[k].path # call[p].item_path
              /\ LinesOf(corpus[k], call[p].ref) # {}
              /\ SameResult(call[p].result,
                            Ret("tuple", <<corpus[k].relpath, PyNone>>))

\* an occurrence of the literal keyword in the line with a non-word character
\* or the start of the line before it and a non-word character or the end of
\* the line after it
BoundedOccurrence(keyword, text) ==
    \E st \in 0..(Len(text) - Len(keyword)) :
        /\ \A k \in 1..Len(keyword) : text[st + k] = keyword[k]
        /\ st = 0 \/ ~IsWord(text[st])
        /\ st + Len(keyword) = Len(text) \/ ~IsWord(text[st + Len(keyword) + 1])

\* C8: a line matches iff it contains an occurrence of the literal keyword
\* between non-word characters or line edges.
C8_WordBoundary ==
    matched # "unset" => (matched = "yes" <=> BoundedOccurrence(kw, line))

\* the result C9 states for a call of find_file_reference
PathResult(c) ==
    LET target == NormPath(Join(c.root, c.ref_path))
        es == {k \in 1..Len(corpus) :
                  corpus[k].path # c.item_path /\ corpus[k].path = target}
    IN IF es = {} THEN NotFound
       ELSE LET e == corpus[Least(es)]
            IN IF c.keyword.none THEN Ret("tuple", <<e.relpath, PyNone>>)
               ELSE IF Readable(e) /\ LinesOf(e, c.keyword.s) # {}
                    THEN Ret("tuple",
                             <<e.relpath, PyInt(Least(LinesOf(e, c.keyword.s)))>>)
                    ELSE NotFound

\* C9: over a corpus of unique paths find_file_reference returns the target
\* entry (no line number, nothing loaded) without a keyword, the first
\* matching line of the target with a keyword, and "not found" in every
\* other case.
C9_PathResolver ==
    \A p \in procs :
        Finished(p, "find_file_reference") =>
            /\ SameResult(call[p].result, PathResult(call[p]))
            /\ call[p].keyword.none => call[p].loads = 0

\* the call as it was entered
Entered(c) ==
    LET c0 == [IdleCall EXCEPT !.op = c.op, !.ref = c.ref,
                               !.ref_path = c.ref_path, !.root = c.root,
                               !.pattern = c.pattern, !.keyword = c.keyword,
                               !.item_path = c.item_path]
    IN IF c.op = "find_pattern_reference" THEN FindPatternReferenceEnter(c0)
       ELSE [c0 EXCEPT !.pc = "loop"]

\* the call run to its end with a line cache of its own
RECURSIVE RunToEnd(_, _)
RunToEnd(c, ch) ==
    IF c.pc = "done" THEN c
    ELSE RunToEnd(Advance(c, ch).c, Advance(c, ch).ch)

RunAlone(c) == RunToEnd(Entered(c), EmptyCache)

\* C10: every call, however it interleaves with other calls on the shared
\* line cache and whatever the cache already holds, returns the result it
\* returns when run alone with an empty cache.
C10_CacheTransparent ==
    \A p \in procs :
        call[p].pc = "done" =>
            SameResult(call[p].result, RunAlone(call[p]).result)

\* a call has finished after loading lines while another call, which missed
\* the cache, is about to populate an entry the cache holds by now
C10_Witness ==
    \E p \in procs, q \in procs :
        /\ p # q
        /\ call[p].pc = "done"
        /\ call[p].loads > 0
        /\ IsMatch(call[p].result)
        /\ call[q].pc = "load"
        /\ CacheKey(corpus[call[q].i]) \in DOMAIN cache

====
